---- MODULE Spec2Model ----
(***************************************************************************)
(* Image acquisition pipeline of frontend/app/analyse/page.tsx:            *)
(* device detection, the MobileCamera stream effect, the DesktopCamera     *)
(* webcam toggle, the capture handlers, base64ToBlob and the upload.       *)
(*                                                                         *)
(* JavaScript strings are sequences of one-character strings; null is the  *)
(* empty sequence (no capture path produces an empty string).              *)
(***************************************************************************)
EXTENDS Integers, Sequences, FiniteSets

(* ---- bounds ---- *)
\* getUserMedia requests one MobileCamera instance may issue (mount + toggles)
MaxRequests == 2
\* times the desktop webcam may be opened
MaxOpens == 1
\* capture events (shutter presses and file selections) per page
MaxCaptures == 2
\* file-input change events that carry no file (a cancelled chooser)
MaxEmptyChanges == 1

Null == <<>>

(* ---- strings ---- *)
DataPrefix == <<"d", "a", "t", "a", ":">>
BlobPrefix == <<"b", "l", "o", "b", ":">>
Jpeg == <<"i", "m", "a", "g", "e", "/", "j", "p", "e", "g">>
Base64Tag == <<"b", "a", "s", "e", "6", "4">>
Undefined == <<"u", "n", "d", "e", "f", "i", "n", "e", "d">>
CapturedJpg == <<"c", "a", "p", "t", "u", "r", "e", "d", ".", "j", "p", "g">>
Digits == <<"0", "1", "2", "3", "4", "5", "6", "7", "8", "9">>

\* String.prototype.startsWith
StartsWith(s, p) == Len(s) >= Len(p) /\ SubSeq(s, 1, Len(p)) = p

\* index of the first occurrence of character c in s at or after i, 0 if none
RECURSIVE IndexFrom(_, _, _)
IndexFrom(s, c, i) ==
    IF i > Len(s) THEN 0
    ELSE IF s[i] = c THEN i
    ELSE IndexFrom(s, c, i + 1)

\* String.prototype.split(","): every comma separates
RECURSIVE Split(_)
Split(s) ==
    LET k == IndexFrom(s, ",", 1)
    IN IF k = 0 THEN <<s>>
       ELSE <<SubSeq(s, 1, k - 1)>> \o Split(SubSeq(s, k + 1, Len(s)))

\* parts[0].match(/:(.*?);/): the lazy group between the first ":" and the
\* first ";" after it; ok = FALSE stands for the null match
MimeMatch(p) ==
    LET i == IndexFrom(p, ":", 1)
        j == IF i = 0 THEN 0 ELSE IndexFrom(p, ";", i + 1)
    IN IF i = 0 \/ j = 0 THEN [ok |-> FALSE, group |-> Null]
       ELSE [ok |-> TRUE, group |-> SubSeq(p, i + 1, j - 1)]

(* ---- atob: the forgiving-base64 decode ---- *)
Base64Alphabet ==
    << "A", "B", "C", "D", "E", "F", "G", "H", "I", "J", "K", "L", "M",
       "N", "O", "P", "Q", "R", "S", "T", "U", "V", "W", "X", "Y", "Z",
       "a", "b", "c", "d", "e", "f", "g", "h", "i", "j", "k", "l", "m",
       "n", "o", "p", "q", "r", "s", "t", "u", "v", "w", "x", "y", "z",
       "0", "1", "2", "3", "4", "5", "6", "7", "8", "9", "+", "/" >>

AsciiWhitespace == {" ", "\n", "\t", "\r", "\f"}

Base64Value(c) == (CHOOSE k \in 1..Len(Base64Alphabet) : Base64Alphabet[k] = c) - 1

IsBase64Char(c) == \E k \in 1..Len(Base64Alphabet) : Base64Alphabet[k] = c

RECURSIVE StripWhitespace(_)
StripWhitespace(s) ==
    IF s = <<>> THEN <<>>
    ELSE IF Head(s) \in AsciiWhitespace THEN StripWhitespace(Tail(s))
    ELSE <<Head(s)>> \o StripWhitespace(Tail(s))

StripPadding(s) ==
    IF Len(s) % 4 = 0 /\ Len(s) >= 2 /\ s[Len(s)] = "=" /\ s[Len(s) - 1] = "="
    THEN SubSeq(s, 1, Len(s) - 2)
    ELSE IF Len(s) % 4 = 0 /\ Len(s) >= 1 /\ s[Len(s)] = "="
    THEN SubSeq(s, 1, Len(s) - 1)
    ELSE s

\* the bytes of a run of sextets: 4 give 3 bytes, 3 give 2, 2 give 1
RECURSIVE DecodeSextets(_)
DecodeSextets(s) ==
    IF Len(s) < 2 THEN <<>>
    ELSE LET a == Base64Value(s[1])
             b == Base64Value(s[2])
             b1 == a * 4 + (b \div 16)
         IN IF Len(s) = 2 THEN <<b1>>
            ELSE LET c == Base64Value(s[3])
                     b2 == (b % 16) * 16 + (c \div 4)
                 IN IF Len(s) = 3 THEN <<b1, b2>>
                    ELSE LET d == Base64Value(s[4])
                             b3 == (c % 4) * 64 + d
                         IN <<b1, b2, b3>> \o DecodeSextets(SubSeq(s, 5, Len(s)))

\* window.atob: ok = FALSE stands for the InvalidCharacterError it throws
Atob(s) ==
    LET t == StripPadding(StripWhitespace(s))
    IN IF Len(t) % 4 = 1 \/ \E k \in 1..Len(t) : ~IsBase64Char(t[k])
       THEN [ok |-> FALSE, bytes |-> <<>>]
       ELSE [ok |-> TRUE, bytes |-> DecodeSextets(t)]

\* base64ToBlob: ok = FALSE stands for the exception thrown by atob or by the
\* property read on a null match
base64ToBlob(base64) ==
    LET parts == Split(base64)
        byteString == Atob(IF Len(parts) >= 2 THEN parts[2] ELSE Undefined)
        mimeString == MimeMatch(parts[1])
    IN IF byteString.ok /\ mimeString.ok
       THEN [ok |-> TRUE, bytes |-> byteString.bytes, type |-> mimeString.group]
       ELSE [ok |-> FALSE, bytes |-> <<>>, type |-> Null]

(* ---- device detection ---- *)
UpperCase ==
    << "A", "B", "C", "D", "E", "F", "G", "H", "I", "J", "K", "L", "M",
       "N", "O", "P", "Q", "R", "S", "T", "U", "V", "W", "X", "Y", "Z" >>
LowerCase ==
    << "a", "b", "c", "d", "e", "f", "g", "h", "i", "j", "k", "l", "m",
       "n", "o", "p", "q", "r", "s", "t", "u", "v", "w", "x", "y", "z" >>

\* case folding of the regular expression's i flag
Fold(c) ==
    IF \E k \in 1..26 : UpperCase[k] = c
    THEN LowerCase[CHOOSE k \in 1..26 : UpperCase[k] = c]
    ELSE c

FoldAll(s) == [k \in 1..Len(s) |-> Fold(s[k])]

Contains(s, p) ==
    \E k \in 1..(Len(s) - Len(p) + 1) : SubSeq(s, k, k + Len(p) - 1) = p

MobilePatterns ==
    { <<"i", "P", "h", "o", "n", "e">>, <<"i", "P", "a", "d">>,
      <<"i", "P", "o", "d">>, <<"A", "n", "d", "r", "o", "i", "d">> }

\* /iPhone|iPad|iPod|Android/i.test(userAgent)
MobileTest(ua) == \E p \in MobilePatterns : Contains(FoldAll(ua), FoldAll(p))

\* navigator.userAgent values the page is loaded with ("" when absent)
UserAgents ==
    { <<"M", "o", "z", " ", "i", "P", "h", "o", "n", "e">>,
      <<"l", "i", "n", "u", "x", ";", "a", "n", "d", "r", "o", "i", "d">>,
      <<"M", "o", "z", " ", "X", "1", "1">>,
      <<>> }

(* ---- captured images ---- *)
StringImage(s) ==
    [tag |-> "string", str |-> s, name |-> Null, type |-> Null, bytes |-> <<>>]
FileImage(n, t, b) ==
    [tag |-> "File", str |-> Null, name |-> n, type |-> t, bytes |-> b]
BlobImage(t, b) ==
    [tag |-> "Blob", str |-> Null, name |-> Null, type |-> t, bytes |-> b]

\* canvas.toDataURL("image/jpeg") and Webcam.getScreenshot() with
\* screenshotFormat="image/jpeg": a well-formed base64 JPEG data URI
JpegDataUrl(payload) == DataPrefix \o Jpeg \o <<";">> \o Base64Tag \o <<",">> \o payload

\* base64 payloads of the frames the camera can show
Frames == { <<"Q", "U", "J", "D">> }

\* files the user can pick
PickedFiles ==
    { FileImage(<<"a", ".", "p", "n", "g">>, <<"i", "m", "a", "g", "e", "/", "p", "n", "g">>, <<137, 80>>) }

\* URL.createObjectURL: a fresh blob: URL per call
ObjectUrl(n) == BlobPrefix \o <<Digits[n + 1]>>

(* ---- upload and capture handlers ---- *)
BlobName == <<"b", "l", "o", "b">>

NoForm ==
    [field |-> "none", filename |-> Null, type |-> Null, bytes |-> <<>>, value |-> Null]

\* the FormData built by handleImageUpload; ok = FALSE when base64ToBlob throws
\* (FormData.append(name, blob) without a filename names a File by its name
\* and any other Blob "blob")
BuildFormData(image) ==
    IF image.tag = "string"
    THEN IF StartsWith(image.str, DataPrefix)
         THEN LET blob == base64ToBlob(image.str)
              IN IF blob.ok
                 THEN [ok |-> TRUE,
                       form |-> [field |-> "image", filename |-> CapturedJpg,
                                 type |-> blob.type, bytes |-> blob.bytes,
                                 value |-> Null]]
                 ELSE [ok |-> FALSE, form |-> NoForm]
         ELSE [ok |-> TRUE,
               form |-> [field |-> "imageUrl", filename |-> Null, type |-> Null,
                         bytes |-> <<>>, value |-> image.str]]
    ELSE [ok |-> TRUE,
          form |-> [field |-> "image",
                    filename |-> IF image.tag = "File" THEN image.name ELSE BlobName,
                    type |-> image.type, bytes |-> image.bytes, value |-> Null]]

\* handleImageUpload up to its first await: the exception of base64ToBlob is
\* thrown before the try block and rejects the promise nobody awaits;
\* otherwise one fetch is issued
handleImageUpload(image) ==
    LET fd == BuildFormData(image)
    IN IF fd.ok
       THEN [upload |-> "fetching", posts |-> 1, form |-> fd.form, trace |-> <<"fetch">>]
       ELSE [upload |-> "threw", posts |-> 0, form |-> NoForm, trace |-> <<"throw">>]

\* variant: the upload is started before the preview is set
handleCaptureUploadFirst(data, prev, n) ==
    LET up == handleImageUpload(data)
        url == IF data.tag = "string" THEN data.str ELSE ObjectUrl(n)
    IN [capture |-> [image |-> data, preview |-> url,
                     trace |-> up.trace \o <<"setScreenshot">>,
                     upload |-> up.upload, posts |-> up.posts, form |-> up.form,
                     response |-> "none"],
        screenshot |-> url,
        created |-> IF data.tag = "string" THEN {} ELSE {url}]

\* variant: the preview is set only while none is displayed
handleCaptureKeepsFirst(data, prev, n) ==
    LET up == handleImageUpload(data)
        url == IF data.tag = "string" THEN data.str ELSE ObjectUrl(n)
    IN [capture |-> [image |-> data, preview |-> url,
                     trace |-> <<"setScreenshot">> \o up.trace,
                     upload |-> up.upload, posts |-> up.posts, form |-> up.form,
                     response |-> "none"],
        screenshot |-> IF prev = Null THEN url ELSE prev,
        created |-> IF data.tag = "string" THEN {} ELSE {url}]

\* handleCapture(data) called when `prev` is displayed and n object URLs have
\* been created: the capture event's record, the new screenshot state and the
\* object URLs it allocates
handleCapture(data, prev, n) ==
    LET up == handleImageUpload(data)
    IN IF data.tag = "string"
       THEN [capture |-> [image |-> data, preview |-> data.str,
                          trace |-> <<"setScreenshot">> \o up.trace,
                          upload |-> up.upload, posts |-> up.posts, form |-> up.form,
                     response |-> "none"],
             screenshot |-> data.str,
             created |-> {}]
       ELSE [capture |-> [image |-> data, preview |-> ObjectUrl(n),
                          trace |-> <<"createObjectURL", "setScreenshot">> \o up.trace,
                          upload |-> up.upload, posts |-> up.posts, form |-> up.form,
                     response |-> "none"],
             screenshot |-> ObjectUrl(n),
             created |-> {ObjectUrl(n)}]

\* handleMobileFile with a selected file
handleMobileFile(file, prev, n) ==
    LET up == handleImageUpload(file)
    IN [capture |-> [image |-> file, preview |-> ObjectUrl(n),
                     trace |-> <<"createObjectURL", "setScreenshot">> \o up.trace,
                     upload |-> up.upload, posts |-> up.posts, form |-> up.form,
                     response |-> "none"],
        screenshot |-> ObjectUrl(n),
        created |-> {ObjectUrl(n)}]

(* ---- render ---- *)
\* Analyse: the loading branch while isMobileDevice is null, then the ternary
MobileCameraRendered(m) == m # "null" /\ m = "true"
\* variant: DesktopCamera rendered outside the ternary
DesktopCameraRenderedAlways(m) == m # "null"
DesktopCameraRendered(m) == m # "null" /\ m # "true"
\* variant: <Webcam> rendered outside the showWebcam branch
WebcamRenderedAlways(sw) == TRUE
\* DesktopCamera: <Webcam> is rendered in the showWebcam branch only
WebcamRendered(sw) == sw

(* ---- MobileCamera stream effect ---- *)
NoStream == 0

\* one run of the [facingMode] effect: its getUserMedia request and its
\* closure variable activeStream
NewEffect(facing) ==
    [facingMode |-> facing, request |-> "pending", activeStream |-> NoStream,
     cleanedUp |-> FALSE]

\* the effect's cleanup: the streams whose tracks it stops
CleanupStops(e) == IF e.activeStream # NoStream THEN {e.activeStream} ELSE {}

toggleCamera(prev) == IF prev = "environment" THEN "user" ELSE "environment"

(* ---- Webcam (react-webcam) instance ---- *)
NewWebcam == [request |-> "pending", unmounted |-> FALSE, stream |-> "none"]

\* componentWillUnmount: the held stream is stopped
WebcamUnmount(w) ==
    [w EXCEPT !.unmounted = TRUE,
              !.stream = IF w.stream = "live" THEN "stopped" ELSE w.stream]

\* the commit of a DesktopCamera render: mounts or unmounts the Webcam
WebcamCommit(ws, rendered) ==
    LET mounted == ws # <<>> /\ ~ws[Len(ws)].unmounted
    IN IF rendered /\ ~mounted THEN Append(ws, NewWebcam)
       ELSE IF ~rendered /\ mounted
       THEN [ws EXCEPT ![Len(ws)] = WebcamUnmount(ws[Len(ws)])]
       ELSE ws

(* ---- upload continuation ---- *)
\* variant: the body is parsed as JSON before response.ok is looked at
OnResponseParsesFirst(c, ok) ==
    [c EXCEPT !.upload = "reading_json",
              !.response = IF ok THEN "ok" ELSE "not_ok",
              !.trace = Append(@, "json")]
\* fetch resolved with a response: !response.ok reads the text, else the JSON
OnResponse(c, ok) ==
    [c EXCEPT !.upload = IF ok THEN "reading_json" ELSE "reading_text",
              !.response = IF ok THEN "ok" ELSE "not_ok",
              !.trace = Append(@, IF ok THEN "json" ELSE "text")]
\* variant: the catch block retries the request
OnFetchRejectedRetry(c) ==
    [c EXCEPT !.upload = "fetching", !.posts = @ + 1, !.trace = Append(@, "fetch")]
\* fetch rejected: the catch block logs
OnFetchRejected(c) == [c EXCEPT !.upload = "network_error"]
\* response.json() settled
OnJson(c, parsed) == [c EXCEPT !.upload = IF parsed THEN "success" ELSE "parse_error"]
\* response.text() settled: logged and returned, or caught
OnText(c, read) == [c EXCEPT !.upload = IF read THEN "http_error" ELSE "body_error"]

(* ---- state ---- *)
VARIABLES
    userAgent,       \* navigator.userAgent
    emptyChanges,    \* file-input change events handled with no file selected
    shutterPresses,  \* presses of MobileCamera's Capture Photo button
    pageMounted,     \* Analyse is mounted
    isMobileDevice,  \* "null", "true" or "false"
    screenshot,      \* the preview state of Analyse
    captures,        \* the capture events so far, each with its upload task
    objectUrls,      \* object URLs created and not revoked
    urlCount,        \* URL.createObjectURL calls so far
    mobileMounted,   \* MobileCamera is mounted (videoRef.current is set)
    desktopMounted,  \* DesktopCamera is mounted
    facingMode,      \* MobileCamera state
    stream,          \* MobileCamera state
    srcObject,       \* videoRef.current.srcObject
    effects,         \* the runs of the MobileCamera [facingMode] effect
    liveStreams,     \* streams acquired by MobileCamera whose tracks are not stopped
    showWebcam,      \* DesktopCamera state
    webcams          \* the Webcam instances mounted so far

vars ==
    << emptyChanges, shutterPresses, userAgent, pageMounted, isMobileDevice, screenshot, captures, objectUrls,
       urlCount, mobileMounted, desktopMounted, facingMode, stream, srcObject,
       effects, liveStreams, showWebcam, webcams >>

analyseVars == <<userAgent, pageMounted, isMobileDevice, emptyChanges, shutterPresses>>
captureVars == <<screenshot, captures, objectUrls, urlCount>>
mobileVars == <<mobileMounted, facingMode, stream, srcObject, effects, liveStreams>>
desktopVars == <<desktopMounted, showWebcam, webcams>>

Init ==
    /\ userAgent \in UserAgents
    /\ emptyChanges = 0
    /\ shutterPresses = 0
    /\ pageMounted = TRUE
    /\ isMobileDevice = "null"
    /\ screenshot = Null
    /\ captures = <<>>
    /\ objectUrls = {}
    /\ urlCount = 0
    /\ mobileMounted = FALSE
    /\ desktopMounted = FALSE
    /\ facingMode = "environment"
    /\ stream = NoStream
    /\ srcObject = NoStream
    /\ effects = <<>>
    /\ liveStreams = {}
    /\ showWebcam = FALSE
    /\ webcams = <<>>

(* ---- Analyse ---- *)
\* the detection effect, and the commit of the render it causes: the matching
\* capture component mounts and MobileCamera's effect issues its first request
DetectDevice ==
    /\ pageMounted
    /\ isMobileDevice = "null"
    /\ isMobileDevice' = IF MobileTest(userAgent) THEN "true" ELSE "false"
    /\ mobileMounted' = MobileCameraRendered(isMobileDevice')
    /\ desktopMounted' = DesktopCameraRendered(isMobileDevice')
    /\ effects' = IF mobileMounted' THEN <<NewEffect(facingMode)>> ELSE <<>>
    /\ webcams' = IF desktopMounted' THEN WebcamCommit(webcams, WebcamRendered(showWebcam))
                  ELSE webcams
    /\ UNCHANGED <<userAgent, emptyChanges, shutterPresses, pageMounted, facingMode, stream, srcObject,
                   liveStreams, showWebcam>>
    /\ UNCHANGED captureVars

\* the page unmounts: MobileCamera's effect cleanup runs, the Webcam unmounts
\* (the mount's passive effects are flushed before any later update, so the
\* detection effect has run by then)
Unmount ==
    /\ pageMounted
    /\ isMobileDevice # "null"
    /\ pageMounted' = FALSE
    /\ mobileMounted' = FALSE
    /\ desktopMounted' = FALSE
    /\ IF mobileMounted
       THEN /\ effects' = [effects EXCEPT ![Len(effects)].cleanedUp = TRUE]
            /\ liveStreams' = liveStreams \ CleanupStops(effects[Len(effects)])
       ELSE UNCHANGED <<effects, liveStreams>>
    /\ webcams' = IF desktopMounted THEN WebcamCommit(webcams, FALSE) ELSE webcams
    /\ UNCHANGED <<userAgent, emptyChanges, shutterPresses, isMobileDevice, facingMode, stream, srcObject, showWebcam>>
    /\ UNCHANGED captureVars

(* ---- MobileCamera ---- *)
\* Switch Camera: facingMode flips, the previous effect's cleanup runs and the
\* effect runs again with a new getUserMedia request
ToggleCamera ==
    /\ mobileMounted
    /\ Len(effects) < MaxRequests
    /\ facingMode' = toggleCamera(facingMode)
    /\ liveStreams' = liveStreams \ CleanupStops(effects[Len(effects)])
    /\ effects' = Append([effects EXCEPT ![Len(effects)].cleanedUp = TRUE],
                         NewEffect(facingMode'))
    /\ UNCHANGED <<mobileMounted, stream, srcObject>>
    /\ UNCHANGED <<analyseVars, captureVars, desktopVars>>

\* the getUserMedia request of effect run i resolves with a new stream
GetUserMediaResolve(i) ==
    /\ effects[i].request = "pending"
    /\ effects' = [effects EXCEPT ![i].request = "resolved", ![i].activeStream = i]
    /\ liveStreams' = liveStreams \cup {i}
    /\ srcObject' = IF mobileMounted THEN i ELSE srcObject
    /\ stream' = IF mobileMounted THEN i ELSE stream
    /\ UNCHANGED <<mobileMounted, facingMode>>
    /\ UNCHANGED <<analyseVars, captureVars, desktopVars>>

\* the getUserMedia request of effect run i rejects: the catch block logs
GetUserMediaReject(i) ==
    /\ effects[i].request = "pending"
    /\ effects' = [effects EXCEPT ![i].request = "rejected"]
    /\ UNCHANGED <<mobileMounted, facingMode, stream, srcObject, liveStreams>>
    /\ UNCHANGED <<analyseVars, captureVars, desktopVars>>

\* variant: after a capture whose upload failed, later captures are dropped
RecordCaptureWhileHealthy(r) ==
    LET failed == \E i \in 1..Len(captures) :
                      captures[i].upload \in
                          {"threw", "network_error", "parse_error", "http_error", "body_error"}
    IN /\ captures' = Append(captures,
                             IF failed
                             THEN [r.capture EXCEPT !.upload = "threw", !.posts = 0,
                                                    !.trace = <<"throw">>]
                             ELSE r.capture)
       /\ screenshot' = IF failed THEN screenshot ELSE r.screenshot
       /\ objectUrls' = objectUrls \cup r.created
       /\ urlCount' = urlCount + Cardinality(r.created)

\* a capture event: the record r of handleCapture or handleMobileFile
RecordCapture(r) ==
    /\ captures' = Append(captures, r.capture)
    /\ screenshot' = r.screenshot
    /\ objectUrls' = objectUrls \cup r.created
    /\ urlCount' = urlCount + Cardinality(r.created)

\* variant: capturePhoto also returns early while no stream is bound
capturePhotoEmitsWithStream(current, src) == current /\ src # NoStream

\* capturePhoto's early return: it emits unless videoRef.current is null,
\* whatever the video's srcObject (a 2d context is always obtained)
capturePhotoEmits(current, src) == current

\* Capture Photo is pressed in MobileCamera: the canvas is drawn at the
\* video's size or 640x480 and its JPEG data URL goes to onCapture
MobileCapturePhoto(frame) ==
    /\ mobileMounted
    /\ Len(captures) < MaxCaptures
    /\ shutterPresses' = shutterPresses + 1
    /\ IF capturePhotoEmits(mobileMounted, srcObject)
       THEN RecordCapture(handleCapture(StringImage(JpegDataUrl(frame)), screenshot, urlCount))
       ELSE UNCHANGED captureVars
    /\ UNCHANGED <<userAgent, pageMounted, isMobileDevice, emptyChanges>>
    /\ UNCHANGED <<mobileVars, desktopVars>>

\* the mobile file input changes with a file selected
MobileFileChange(file) ==
    /\ mobileMounted
    /\ Len(captures) < MaxCaptures
    /\ RecordCapture(handleMobileFile(file, screenshot, urlCount))
    /\ UNCHANGED <<analyseVars, mobileVars, desktopVars>>

\* variant: a cancelled chooser clears the preview
MobileFileCancelClearsPreview ==
    /\ mobileMounted
    /\ emptyChanges < MaxEmptyChanges
    /\ emptyChanges' = emptyChanges + 1
    /\ screenshot' = Null
    /\ UNCHANGED <<userAgent, pageMounted, isMobileDevice, shutterPresses>>
    /\ UNCHANGED <<captures, objectUrls, urlCount, mobileVars, desktopVars>>

\* the mobile file input changes with no file selected: handleMobileFile
\* does nothing
MobileFileCancel ==
    /\ mobileMounted
    /\ emptyChanges < MaxEmptyChanges
    /\ emptyChanges' = emptyChanges + 1
    /\ UNCHANGED <<userAgent, pageMounted, isMobileDevice, shutterPresses>>
    /\ UNCHANGED <<captureVars, mobileVars, desktopVars>>

(* ---- DesktopCamera ---- *)
OpenWebcam ==
    /\ desktopMounted
    /\ ~showWebcam
    /\ Len(webcams) < MaxOpens
    /\ showWebcam' = TRUE
    /\ webcams' = WebcamCommit(webcams, WebcamRendered(showWebcam'))
    /\ UNCHANGED desktopMounted
    /\ UNCHANGED <<analyseVars, captureVars, mobileVars>>

CloseWebcam ==
    /\ desktopMounted
    /\ showWebcam
    /\ showWebcam' = FALSE
    /\ webcams' = WebcamCommit(webcams, WebcamRendered(showWebcam'))
    /\ UNCHANGED desktopMounted
    /\ UNCHANGED <<analyseVars, captureVars, mobileVars>>

\* the Webcam's getUserMedia request resolves: an unmounted instance stops
\* the stream at once
WebcamResolve(i) ==
    /\ webcams[i].request = "pending"
    /\ webcams' = [webcams EXCEPT ![i].request = "resolved",
                                  ![i].stream = IF webcams[i].unmounted
                                                THEN "stopped" ELSE "live"]
    /\ UNCHANGED <<desktopMounted, showWebcam>>
    /\ UNCHANGED <<analyseVars, captureVars, mobileVars>>

WebcamReject(i) ==
    /\ webcams[i].request = "pending"
    /\ webcams' = [webcams EXCEPT ![i].request = "rejected"]
    /\ UNCHANGED <<desktopMounted, showWebcam>>
    /\ UNCHANGED <<analyseVars, captureVars, mobileVars>>

\* variant: Capture Photo also closes the webcam
DesktopCapturePhotoCloses(frame) ==
    /\ desktopMounted
    /\ showWebcam
    /\ webcams # <<>>
    /\ webcams[Len(webcams)].stream = "live"
    /\ Len(captures) < MaxCaptures
    /\ RecordCapture(handleCapture(StringImage(JpegDataUrl(frame)), screenshot, urlCount))
    /\ showWebcam' = FALSE
    /\ webcams' = WebcamCommit(webcams, WebcamRendered(showWebcam'))
    /\ UNCHANGED desktopMounted
    /\ UNCHANGED <<analyseVars, mobileVars>>

\* Capture Photo in DesktopCamera: getScreenshot() is null unless the mounted
\* Webcam has its stream, and a null imageSrc is dropped
DesktopCapturePhoto(frame) ==
    /\ desktopMounted
    /\ showWebcam
    /\ webcams # <<>>
    /\ webcams[Len(webcams)].stream = "live"
    /\ Len(captures) < MaxCaptures
    /\ RecordCapture(handleCapture(StringImage(JpegDataUrl(frame)), screenshot, urlCount))
    /\ UNCHANGED <<analyseVars, mobileVars, desktopVars>>

\* the desktop file input changes with a file selected
DesktopFileChange(file) ==
    /\ desktopMounted
    /\ Len(captures) < MaxCaptures
    /\ RecordCapture(handleCapture(file, screenshot, urlCount))
    /\ UNCHANGED <<analyseVars, mobileVars, desktopVars>>

\* the desktop file input changes with no file selected: onCapture is not called
DesktopFileCancel ==
    /\ desktopMounted
    /\ emptyChanges < MaxEmptyChanges
    /\ emptyChanges' = emptyChanges + 1
    /\ UNCHANGED <<userAgent, pageMounted, isMobileDevice, shutterPresses>>
    /\ UNCHANGED <<captureVars, mobileVars, desktopVars>>

(* ---- upload tasks ---- *)
FetchResponse(i, ok) ==
    /\ captures[i].upload = "fetching"
    /\ captures' = [captures EXCEPT ![i] = OnResponse(captures[i], ok)]
    /\ UNCHANGED <<screenshot, objectUrls, urlCount>>
    /\ UNCHANGED <<analyseVars, mobileVars, desktopVars>>

FetchReject(i) ==
    /\ captures[i].upload = "fetching"
    /\ captures' = [captures EXCEPT ![i] = OnFetchRejected(captures[i])]
    /\ UNCHANGED <<screenshot, objectUrls, urlCount>>
    /\ UNCHANGED <<analyseVars, mobileVars, desktopVars>>

JsonSettle(i, parsed) ==
    /\ captures[i].upload = "reading_json"
    /\ captures' = [captures EXCEPT ![i] = OnJson(captures[i], parsed)]
    /\ UNCHANGED <<screenshot, objectUrls, urlCount>>
    /\ UNCHANGED <<analyseVars, mobileVars, desktopVars>>

TextSettle(i, read) ==
    /\ captures[i].upload = "reading_text"
    /\ captures' = [captures EXCEPT ![i] = OnText(captures[i], read)]
    /\ UNCHANGED <<screenshot, objectUrls, urlCount>>
    /\ UNCHANGED <<analyseVars, mobileVars, desktopVars>>

UploadStep ==
    \E i \in 1..Len(captures) :
        \/ \E ok \in BOOLEAN : FetchResponse(i, ok)
        \/ FetchReject(i)
        \/ \E parsed \in BOOLEAN : JsonSettle(i, parsed)
        \/ \E read \in BOOLEAN : TextSettle(i, read)

Next ==
    \/ DetectDevice
    \/ Unmount
    \/ ToggleCamera
    \/ \E i \in 1..Len(effects) : GetUserMediaResolve(i)
    \/ \E i \in 1..Len(effects) : GetUserMediaReject(i)
    \/ \E frame \in Frames : MobileCapturePhoto(frame)
    \/ \E file \in PickedFiles : MobileFileChange(file)
    \/ OpenWebcam
    \/ CloseWebcam
    \/ \E i \in 1..Len(webcams) : WebcamResolve(i)
    \/ \E i \in 1..Len(webcams) : WebcamReject(i)
    \/ \E frame \in Frames : DesktopCapturePhoto(frame)
    \/ \E file \in PickedFiles : DesktopFileChange(file)
    \/ UploadStep

Spec == Init /\ [][Next]_vars

(* ---- the capture handlers over their whole parameter type ---- *)
\* values of type Blob | string: the data URIs and files the capture
\* components produce, and values none of them produces today
HandlerInputs ==
    { StringImage(JpegDataUrl(frame)) : frame \in Frames } \cup PickedFiles \cup
    { StringImage(JpegDataUrl(<<"Q", "U", "I", "=">>)),
      StringImage(DataPrefix \o Jpeg \o <<";">> \o Base64Tag \o <<",", "*", "*", "*">>),
      StringImage(DataPrefix \o Jpeg \o <<";", "u", "t", "f", "8", ",", "Q", "U", "J", "D">>),
      StringImage(DataPrefix \o Jpeg),
      StringImage(<<"h", "t", "t", "p", ":", "/", "/", "x">>),
      BlobImage(Jpeg, <<255, 216>>) }

\* onCapture(data) called by the mounted capture component with any such value
OnCapture(data) ==
    /\ mobileMounted \/ desktopMounted
    /\ Len(captures) < MaxCaptures
    /\ RecordCapture(handleCapture(data, screenshot, urlCount))
    /\ UNCHANGED <<analyseVars, mobileVars, desktopVars>>

\* the page as far as its capture handlers and upload tasks go
NextHandler ==
    \/ DetectDevice
    \/ Unmount
    \/ \E data \in HandlerInputs : OnCapture(data)
    \/ \E file \in PickedFiles : MobileFileChange(file)
    \/ UploadStep

SpecHandler == Init /\ [][NextHandler]_vars

(* ---- the capture handlers next to failed stream acquisitions ---- *)
NextScoped ==
    \/ NextHandler
    \/ \E i \in 1..Len(effects) : GetUserMediaReject(i)
    \/ OpenWebcam
    \/ \E i \in 1..Len(webcams) : WebcamReject(i)

SpecScoped == Init /\ [][NextScoped]_vars

(* ---- the capture components with cancelled file choosers ---- *)
\* the upload tasks stay where the handlers left them
NextPicker ==
    \/ DetectDevice
    \/ Unmount
    \/ ToggleCamera
    \/ \E i \in 1..Len(effects) : GetUserMediaResolve(i)
    \/ \E i \in 1..Len(effects) : GetUserMediaReject(i)
    \/ \E frame \in Frames : MobileCapturePhoto(frame)
    \/ \E file \in PickedFiles : MobileFileChange(file)
    \/ MobileFileCancel
    \/ OpenWebcam
    \/ CloseWebcam
    \/ \E i \in 1..Len(webcams) : WebcamResolve(i)
    \/ \E i \in 1..Len(webcams) : WebcamReject(i)
    \/ \E frame \in Frames : DesktopCapturePhoto(frame)
    \/ \E file \in PickedFiles : DesktopFileChange(file)
    \/ DesktopFileCancel

SpecPicker == Init /\ [][NextPicker]_vars

(* ---- properties ---- *)
Pending(rs) == {i \in 1..Len(rs) : rs[i].request = "pending"}
WebcamLive == {i \in 1..Len(webcams) : webcams[i].stream = "live"}
Positions(t, op) == {k \in 1..Len(t) : t[k] = op}

\* C1: MobileCamera never has two live (un-stopped) media streams at once.
C1_AtMostOneLiveStream == Cardinality(liveStreams) <= 1

\* C2: after MobileCamera has unmounted and every getUserMedia request it
\* issued has settled, no stream it acquired is still live.
C2_UnmountReleasesAll ==
    (~pageMounted /\ Pending(effects) = {}) => liveStreams = {}

\* C3: a DesktopCamera stream is live only while the widget is mounted and
\* showWebcam is true; once closed (by Close Webcam or by unmount) it holds none.
C3_ClosedHoldsNoStream ==
    WebcamLive # {} => (desktopMounted /\ showWebcam)

\* the widget was opened, had its stream, and is closed again
C3_Witness ==
    /\ ~showWebcam
    /\ \E i \in 1..Len(webcams) : webcams[i].stream = "stopped"

\* C4: every object URL allocated for an earlier capture has been revoked:
\* the only resolvable one is the preview of the latest capture.
C4_OnlyLatestPreviewResolvable == objectUrls \subseteq {screenshot}

\* strict base64: alphabet characters in groups of four, "=" only as the
\* last one or two characters
StrictBase64(s) ==
    /\ Len(s) % 4 = 0
    /\ \A k \in 1..Len(s) :
           \/ IsBase64Char(s[k])
           \/ s[k] = "=" /\ k >= Len(s) - 1 /\ (k = Len(s) \/ s[Len(s)] = "=")

\* the pattern data:<mime>;base64,<base64>, split at the first comma
WellFormedDataUri(s) ==
    LET k == IndexFrom(s, ",", 1)
        head == SubSeq(s, 1, k - 1)
        tag == <<";">> \o Base64Tag
    IN /\ k > 0
       /\ StartsWith(head, DataPrefix)
       /\ Len(head) > Len(DataPrefix) + Len(tag)
       /\ SubSeq(head, Len(head) - Len(tag) + 1, Len(head)) = tag
       /\ StrictBase64(SubSeq(s, k + 1, Len(s)))

\* C5: a capture whose string starts with "data:" but is not a well-formed
\* base64 data URI fails normalization and causes no POST.
C5_MalformedDataUriNotPosted ==
    \A i \in 1..Len(captures) :
        LET c == captures[i]
        IN (c.image.tag = "string" /\ StartsWith(c.image.str, DataPrefix)
                /\ ~WellFormedDataUri(c.image.str))
           => (c.upload = "threw" /\ c.posts = 0)

\* C6: every capture event has caused at most one POST, exactly one when its
\* normalization succeeded, whatever the outcome of that POST.
C6_OnePostPerCapture ==
    \A i \in 1..Len(captures) :
        LET c == captures[i]
        IN /\ c.posts = Cardinality(Positions(c.trace, "fetch"))
           /\ c.posts <= 1
           /\ BuildFormData(c.image).ok => c.posts = 1
           /\ ~BuildFormData(c.image).ok => c.posts = 0

FailedUploads == {"network_error", "parse_error", "http_error", "body_error"}

\* an upload has failed and its capture still has exactly one POST
C6_Witness ==
    \E i \in 1..Len(captures) :
        captures[i].upload \in FailedUploads /\ captures[i].posts = 1

\* the preview of capture c was set before its upload was started
PreviewSetFirst(c) ==
    /\ Positions(c.trace, "setScreenshot") # {}
    /\ \A k \in Positions(c.trace, "setScreenshot") :
           \A u \in Positions(c.trace, "fetch") \cup Positions(c.trace, "throw") : k < u

\* C7: each capture sets the preview before its upload starts, and no step
\* of an upload task (response, rejection, parse failure, normalization
\* failure) changes the displayed preview.
C7_PreviewSurvivesUpload ==
    /\ [](\A i \in 1..Len(captures) : PreviewSetFirst(captures[i]))
    /\ [][(Len(captures') = Len(captures)) => (screenshot' = screenshot)]_vars
    /\ [](\A i \in 1..Len(captures) :
             (i = Len(captures) /\ captures[i].upload \in FailedUploads \cup {"threw"})
             => screenshot = captures[i].preview)

\* the server rejected the latest capture and its preview is displayed
C7_Witness ==
    /\ captures # <<>>
    /\ captures[Len(captures)].upload = "http_error"
    /\ screenshot = captures[Len(captures)].preview

\* C8: after a second capture made while the first upload is in flight, the
\* displayed preview is the latest capture's, however the uploads settle.
C8_LastWriteWins ==
    captures # <<>> => screenshot = captures[Len(captures)].preview

\* the second capture's upload settled while the first is still in flight
C8_Witness ==
    /\ Len(captures) = 2
    /\ captures[1].upload = "fetching"
    /\ captures[2].upload = "success"
    /\ captures[1].preview # captures[2].preview
    /\ screenshot = captures[2].preview

\* C9: isMobileDevice starts null, is set once and never changes again; no
\* capture component is mounted while it is null, and afterwards the mounted
\* page shows exactly the component of the detected mode, never both.
C9_CaptureModeSetOnce ==
    /\ isMobileDevice = "null"
    /\ [][isMobileDevice' # isMobileDevice => isMobileDevice = "null"]_vars
    /\ [](isMobileDevice = "null" => (~mobileMounted /\ ~desktopMounted))
    /\ []((pageMounted /\ isMobileDevice = "true") => (mobileMounted /\ ~desktopMounted))
    /\ []((pageMounted /\ isMobileDevice = "false") => (desktopMounted /\ ~mobileMounted))
    /\ [](~(mobileMounted /\ desktopMounted))

\* detection chose Mobile and the page has been used since
C9_Witness ==
    /\ isMobileDevice = "true"
    /\ mobileMounted
    /\ ~desktopMounted
    /\ captures # <<>>

\* C10: when the current getUserMedia request of a mounted MobileCamera
\* fails while no stream is live, no stream is live afterwards and the
\* stream state is null (the pre-acquisition state).
C10_FailureLeavesPreAcquisition ==
    [][(/\ mobileMounted
        /\ liveStreams = {}
        /\ effects[Len(effects)].request = "pending"
        /\ Len(effects') = Len(effects)
        /\ effects'[Len(effects)].request = "rejected")
       => (liveStreams' = {} /\ stream' = NoStream)]_vars

\* C11: on every toggle the stream acquired for the previous facing mode is
\* stopped before the request for the new one is issued: once a newer
\* request exists, no stream of an earlier effect run is live.
C11_ReleaseThenAcquire ==
    \A i \in liveStreams : i = Len(effects)

\* C12: a non-2xx response is a failure whose body is read as text and never
\* parsed as JSON; a rejected request is a failure; a 2xx response whose body
\* does not parse is a failure; only a 2xx response with a parseable body is
\* a success; and once the POST is issued the task never ends uncaught.
C12_UploadOutcomeClassified ==
    \A i \in 1..Len(captures) :
        LET c == captures[i]
        IN /\ c.response = "not_ok" =>
                  /\ Positions(c.trace, "json") = {}
                  /\ Positions(c.trace, "text") # {}
                  /\ c.upload \in {"reading_text", "http_error", "body_error"}
           /\ c.response = "ok" =>
                  /\ Positions(c.trace, "text") = {}
                  /\ c.upload \in {"reading_json", "success", "parse_error"}
           /\ c.upload = "success" => c.response = "ok"
           /\ c.upload = "parse_error" => c.response = "ok"
           /\ c.upload = "network_error" => c.response = "none"
           /\ c.posts = 1 => c.upload # "threw"

\* one upload was refused by the server and another one's body did not parse
C12_Witness ==
    \E i, j \in 1..Len(captures) :
        /\ captures[i].upload = "http_error"
        /\ captures[j].upload = "parse_error"

\* C13: whatever failed before (a normalization, an upload, a stream
\* acquisition), a capture event sets the preview to the new capture, issues
\* its own upload attempt as its own image decides, and leaves the earlier
\* events as they were.
C13_FailuresAreScoped ==
    [][Len(captures') = Len(captures) + 1 =>
          LET c == captures'[Len(captures')]
              ok == BuildFormData(c.image).ok
          IN /\ screenshot' = c.preview
             /\ Positions(c.trace, "setScreenshot") # {}
             /\ c.posts = IF ok THEN 1 ELSE 0
             /\ c.upload = IF ok THEN "fetching" ELSE "threw"
             /\ c.form = BuildFormData(c.image).form
             /\ \A j \in 1..Len(captures) : captures'[j] = captures[j]]_vars

\* the stream acquisition failed and the first capture's normalization
\* threw; the second capture is displayed and has its POST
C13_Witness ==
    /\ \/ effects # <<>> /\ effects[Len(effects)].request = "rejected"
       \/ webcams # <<>> /\ webcams[Len(webcams)].request = "rejected"
    /\ Len(captures) = 2
    /\ captures[1].upload = "threw"
    /\ captures[2].posts = 1
    /\ screenshot = captures[2].preview

\* the part of a data URI after its first comma, and the MIME type between
\* "data:" and the first ";"
DataUriPayload(s) == SubSeq(s, IndexFrom(s, ",", 1) + 1, Len(s))
DataUriMime(s) == SubSeq(s, Len(DataPrefix) + 1, IndexFrom(s, ";", 1) - 1)

\* the multipart field of a posted data-URI, file or non-data string capture
FieldMatchesShape(c) ==
    LET f == c.form
        img == c.image
    IN /\ (img.tag = "string" /\ StartsWith(img.str, DataPrefix)) =>
              /\ f.field = "image"
              /\ f.filename = CapturedJpg
              /\ f.bytes = Atob(DataUriPayload(img.str)).bytes
              /\ f.type = DataUriMime(img.str)
       /\ img.tag = "File" =>
              /\ f.field = "image"
              /\ f.filename = img.name
              /\ f.bytes = img.bytes
       /\ (img.tag = "string" /\ ~StartsWith(img.str, DataPrefix)) =>
              /\ f.field = "imageUrl"
              /\ f.value = img.str

\* C14: the multipart body carries one field chosen by the capture's shape:
\* "image" with the decoded bytes, the prefix's MIME type and "captured.jpg"
\* for a data URI; "image" with the file's bytes and name for a file; "image"
\* with filename "captured.jpg" for a Blob without a name; "imageUrl" with
\* the string for a non-data string.
C14_MultipartFieldByShape ==
    \A i \in 1..Len(captures) :
        captures[i].posts = 1 =>
            /\ FieldMatchesShape(captures[i])
            /\ captures[i].image.tag = "Blob" =>
                   /\ captures[i].form.field = "image"
                   /\ captures[i].form.filename = CapturedJpg

\* C15: a file-input change event with no file selected changes nothing:
\* preview, capture mode, facing mode, webcam open/closed, streams and
\* capture events (so no upload is started) are as before.
C15_CancelChangesNothing ==
    [][emptyChanges' # emptyChanges =>
          UNCHANGED << screenshot, captures, objectUrls, urlCount, isMobileDevice,
                       pageMounted, mobileMounted, desktopMounted, facingMode, stream,
                       srcObject, effects, liveStreams, showWebcam, webcams >>]_vars

\* a chooser was cancelled on a page that shows a preview and holds a stream
C15_Witness ==
    /\ emptyChanges > 0
    /\ screenshot # Null
    /\ liveStreams # {} \/ WebcamLive # {}

\* the Snapshot Widget is Open
WidgetOpen == desktopMounted /\ showWebcam

\* the step is a capture event of the desktop page with an image of tag t
DesktopCaptureOf(t) ==
    /\ desktopMounted
    /\ Len(captures') = Len(captures) + 1
    /\ captures'[Len(captures')].image.tag = t

\* C16: the Snapshot Widget starts Closed; it opens only by the open action
\* (which mounts the Webcam) and closes only by the close action or by
\* unmount (which unmount it); a camera capture happens only while Open and
\* leaves the widget Open with its stream; a file selection leaves the
\* open/closed state as it was.
C16_SnapshotWidgetStateMachine ==
    /\ ~WidgetOpen
    /\ [][/\ (~WidgetOpen /\ WidgetOpen') =>
                 /\ desktopMounted /\ ~showWebcam /\ showWebcam'
                 /\ Len(webcams') = Len(webcams) + 1
                 /\ UNCHANGED <<captureVars, desktopMounted, pageMounted>>
          /\ (WidgetOpen /\ ~WidgetOpen') =>
                 /\ (~showWebcam' /\ desktopMounted') \/ (~desktopMounted' /\ ~pageMounted')
                 /\ webcams'[Len(webcams')].unmounted
                 /\ UNCHANGED captureVars
          /\ DesktopCaptureOf("string") =>
                 /\ WidgetOpen /\ WidgetOpen'
                 /\ UNCHANGED <<showWebcam, webcams>>
          /\ DesktopCaptureOf("File") => UNCHANGED <<showWebcam, webcams>>]_vars

\* a photo was captured and the widget is still open with its stream
C16_Witness ==
    /\ WidgetOpen
    /\ webcams[Len(webcams)].stream = "live"
    /\ \E i \in 1..Len(captures) : captures[i].image.tag = "string"

\* C17: once every getUserMedia request has settled, with MobileCamera still
\* mounted and its latest request resolved, the stream bound to the video
\* (srcObject and the stream state) is live and was acquired for the current
\* facingMode, whatever the order in which the requests resolved.
C17_BoundStreamIsCurrent ==
    (/\ mobileMounted
     /\ Pending(effects) = {}
     /\ effects[Len(effects)].request = "resolved")
    => /\ srcObject # NoStream
       /\ stream = srcObject
       /\ srcObject \in liveStreams
       /\ effects[srcObject].facingMode = facingMode

\* C18: every press of Capture Photo in a mounted MobileCamera (no stream
\* yet, acquisition failed, or between a toggle and the new stream) emits
\* exactly one data-URI capture event, which sets the preview and starts one
\* upload, and leaves the camera state alone.
C18_MobileCaptureNotGated ==
    [][shutterPresses' # shutterPresses =>
          /\ mobileMounted
          /\ Len(captures') = Len(captures) + 1
          /\ LET c == captures'[Len(captures')]
             IN /\ c.image.tag = "string"
                /\ StartsWith(c.image.str, DataPrefix)
                /\ screenshot' = c.image.str
                /\ c.posts = 1
                /\ Cardinality(Positions(c.trace, "fetch")) = 1
          /\ UNCHANGED mobileVars]_vars

\* a photo was captured although neither request of the camera, before or
\* after the toggle, ever delivered a stream
C18_Witness ==
    /\ mobileMounted
    /\ shutterPresses > 0
    /\ Len(effects) = 2
    /\ effects[1].request = "rejected"
    /\ effects[2].request = "pending"
    /\ srcObject = NoStream
    /\ \E i \in 1..Len(captures) :
           captures[i].image.tag = "string" /\ captures[i].posts = 1

====
